---- MODULE Spec2Model ----
(***************************************************************************)
(* Model of AcademicVBTDataCollector.generate_sample_academic_dataset      *)
(* (src/ml_training/real_data_collection_protocol.py).                     *)
(*                                                                         *)
(* Numbers.  Python floats are modelled as fixed-point integers in units   *)
(* of 1/ONE (four decimals); every product and quotient is rounded down to *)
(* that unit, as a float operation rounds its result.  1.79 is 17900,      *)
(* 0.0138 is 138, 9.81 is 98100.  Python ints (participant_id, load_pct,   *)
(* rep) stay integers.                                                     *)
(*                                                                         *)
(* Random stream.  numpy's generator is not part of the repository.  The   *)
(* process-wide stream is a deterministic sequence of raw levels selected  *)
(* by the generator state that np.random.seed(42) installs; that state is  *)
(* unknown to the program and is chosen in Init (seed42).  Each sampling   *)
(* call consumes one position of the stream and turns its raw level into a *)
(* variate of its distribution.                                            *)
(***************************************************************************)
EXTENDS Integers, Sequences, FiniteSets, TLC

VARIABLES
    pc,                 \* position in generate_sample_academic_dataset, "idle" outside a call
    n_participants,     \* argument of the running call
    participant_id,     \* loop variable of line 105 (0: not yet bound)
    ex,                 \* index of the exercise loop (line 133)
    ld,                 \* index of the load loop (line 136)
    rep,                \* loop variable of line 154
    blk,                \* locals of the current (exercise, load) block, lines 134-152
    exercises,          \* local of line 130 (<<>>: not yet bound)
    load_percentages,   \* local of line 131 (<<>>: not yet bound)
    participants_data,  \* list of line 102
    vbt_measurements,   \* list of line 103
    rng,                \* np.random global state: [key, pos]
    seed42,             \* the generator state np.random.seed(42) installs
    draws,              \* the sampling calls of the running call, in order
    now,                \* the wall clock read by datetime.now()
    disk,               \* files under output_dir
    runs                \* completed calls: outcome and returned value

vars == <<pc, n_participants, participant_id, ex, ld, rep, blk, exercises,
          load_percentages, participants_data, vbt_measurements, rng, seed42,
          draws, now, disk, runs>>

-----------------------------------------------------------------------------
\* Bounds of the model.

\* Largest participant count a call is given.
MaxParticipants == 2

\* Number of times the wall clock advances.
MaxClock == 1

\* Clock ticks in one day.
TicksPerDay == 2

\* The participant counts a call is given: negative, zero and positive.
NCounts == -1 .. MaxParticipants

-----------------------------------------------------------------------------
\* Fixed-point arithmetic.

ONE == 100 * 100

Max(a, b) == IF a >= b THEN a ELSE b

Min(a, b) == IF a <= b THEN a ELSE b

\* a * b, rounded down; b is the smaller operand (|b| < 21).
Mul(a, b) == (a \div ONE) * b + ((a % ONE) * b) \div ONE

\* a / b for b > 0, rounded down.
DivPos(a, b) == (a \div b) * ONE + ((a % b) * ONE) \div b

\* a / b, b # 0.
Div(a, b) == IF b > 0 THEN DivPos(a, b) ELSE DivPos(-a, -b)

-----------------------------------------------------------------------------
\* The random stream.

\* Standard normal variates, in thirds of a standard deviation, one per raw level.
ZThirds == <<-30, -25, -14, 0, 9>>

\* Standard exponential variates, one per raw level.
StdExponential == <<0, 2500, 10000, 25000, 60000>>

\* Uniform variates of [0, 1), one per raw level.
StdUniform == <<0, 2500, 5000, 7500, 9999>>

NumRaw == Len(ZThirds)

\* The generator state whose stream has the raw level a + b*i + c*i^2 at position i.
Key(a, b, c) == [a |-> a, b |-> b, c |-> c]

\* The generator states a seed can install: two constant streams (every draw at
\* the lowest level, every draw at the mean), three cycles through all levels
\* and four streams of three levels.
Keys ==
    {Key(0, 0, 0), Key(3, 0, 0),
     Key(0, 1, 0), Key(4, 1, 0), Key(0, 2, 0),
     Key(1, 0, 1), Key(1, 2, 3), Key(0, 3, 2), Key(4, 2, 3)}

\* The raw level at position i of the stream of generator state key.
Raw(key, i) == ((key.a + key.b * i + key.c * i * i) % NumRaw) + 1

\* The raw level the k-th sampling call from now consumes.
RawAt(k) == Raw(rng.key, rng.pos + k)

\* Mutant: the call does not reseed and goes on with the stream as it stands.
Seeded_Stale == rng

\* np.random.seed(42)
Seeded == [key |-> seed42, pos |-> 0]

\* np.random.normal(loc, scale), as the k-th sampling call from now
normal(loc, scale, k) == loc + (scale * ZThirds[RawAt(k)]) \div 3

\* np.random.exponential(scale)
exponential(scale, k) == Mul(scale, StdExponential[RawAt(k)])

\* np.random.uniform(low, high)
uniform(low, high, k) == low + Mul(high - low, StdUniform[RawAt(k)])

\* np.random.randint(low, high): an int of low .. high - 1
randint(low, high, k) == low + ((high - low) * StdUniform[RawAt(k)]) \div ONE

\* The rng after cnt sampling calls.
Advance(cnt) == [rng EXCEPT !.pos = @ + cnt]

-----------------------------------------------------------------------------
\* Formatting of the participant id, f"P{participant_id:03d}".

RECURSIVE Digits(_)
Digits(k) == IF k < 10 THEN <<k>> ELSE Append(Digits(k \div 10), k % 10)

RECURSIVE ZeroPad(_, _)
ZeroPad(ds, width) == IF Len(ds) >= width THEN ds ELSE ZeroPad(<<0>> \o ds, width)

\* Mutant: the id is formatted from the requested count, not the loop variable.
ParticipantIdStr_OfCount(k) == <<"P">> \o ZeroPad(Digits(n_participants), 3)

ParticipantIdStr(k) == <<"P">> \o ZeroPad(Digits(k), 3)

-----------------------------------------------------------------------------
\* Initial state: the collector is constructed, no call has run.

NoBlock == [exercise |-> "", exercise_1rm |-> 0, load_pct |-> 0, absolute_load |-> 0,
            base_velocity |-> 0, individual_factor |-> 0]

NoFile == <<"absent">>

\* The collector is constructed: the generator state is one of keys.
InitWith(keys) ==
    /\ pc = "idle"
    /\ n_participants = 0
    /\ participant_id = 0
    /\ ex = 0
    /\ ld = 0
    /\ rep = 0
    /\ blk = NoBlock
    /\ exercises = <<>>
    /\ load_percentages = <<>>
    /\ participants_data = <<>>
    /\ vbt_measurements = <<>>
    /\ seed42 \in keys
    /\ rng = [key |-> seed42, pos |-> 0]
    /\ draws = <<>>
    /\ now = 0
    /\ disk = [dir |-> FALSE, participants_csv |-> NoFile, measurements_csv |-> NoFile,
               metadata_json |-> NoFile]
    /\ runs = <<>>

\* The clock and the generator state are independent: under every generator
\* state the clock may advance before the call, between any two clock readings
\* of it, or after it.
Init == InitWith(Keys)

-----------------------------------------------------------------------------
\* Static protocol definitions.

\* The data_splitting entry of create_ml_training_protocol; ratios in percent.
create_ml_training_protocol ==
    [strategy |-> "participant_stratified", train_ratio |-> 70,
     validation_ratio |-> 15, test_ratio |-> 15,
     cross_validation |-> "leave_one_participant_out"]

-----------------------------------------------------------------------------
\* Helpers of the generation loop.

\* One entry of the sampling log: whose draw it is and at which site.
Draw(p, e, l, r, site) == [p |-> p, e |-> e, l |-> l, r |-> r, site |-> site]

\* Mutant: every exercise is loaded from the squat one-rep-max.
OneRepMax_Squat(p, exercise) == p.squat_1rm

\* participant_data[f"{exercise}_1rm"]
OneRepMax(p, exercise) ==
    CASE exercise = "squat" -> p.squat_1rm
      [] exercise = "bench" -> p.bench_1rm
      [] exercise = "deadlift" -> p.deadlift_1rm

\* The velocity-load regression of lines 144-149.
BaseVelocity(exercise, load_pct) ==
    IF exercise = "squat" THEN 17900 - 138 * load_pct
    ELSE IF exercise = "bench" THEN 17300 - 157 * load_pct
    ELSE 16500 - 143 * load_pct

\* Mutant: the fatigue term is added instead of subtracted.
FatigueFactor_Rising(r) == ONE + (r - 1) * 300

\* 1.0 - (rep - 1) * 0.03
FatigueFactor(r) == ONE - (r - 1) * 300

\* Mutant: the minimum velocity of line 159 is not applied.
MeanVelocity_NoFloor(base_velocity, individual_factor, r) ==
    Mul(Mul(base_velocity, individual_factor), FatigueFactor(r))

\* Lines 158-159.
MeanVelocity(base_velocity, individual_factor, r) ==
    Max(1000, Mul(Mul(base_velocity, individual_factor), FatigueFactor(r)))

\* np.clip(x, lo, hi)
Clip(x, lo, hi) == Min(Max(x, lo), hi)

\* 8.5 - (load_pct - 50) * 0.02
BaseTechnique(load_pct) == 85000 - (load_pct - 50) * 200

\* Lines 173-175; the technique draw is the 4th sampling call of a repetition.
TechniqueScore(load_pct) == Clip(normal(BaseTechnique(load_pct), 8000, 3), ONE, 10 * ONE)

\* exercise_1rm * (load_pct / 100)
AbsoluteLoad(exercise_1rm, load_pct) == Mul(exercise_1rm, load_pct * 100)

\* datetime.isoformat(): the date and the time of day of instant t.
IsoFormat(t) == <<t \div TicksPerDay, t % TicksPerDay>>

\* datetime.now() - timedelta(days=d)
DaysBefore(t, d) == t - d * TicksPerDay

\* Lines 107-126: the record of participant pid, from 7 sampling calls.
ParticipantData(pid) ==
    LET age == normal(250000, 40000, 0)
        body_mass == normal(750000, 120000, 1)
        height == normal(1750000, 80000, 2)
        training_exp == exponential(20000, 3) + 5000
        squat_1rm == Mul(body_mass, 12000 + Mul(500, training_exp)) + normal(0, 100000, 4)
        bench_1rm == Mul(body_mass, 10000 + Mul(300, training_exp)) + normal(0, 80000, 5)
        deadlift_1rm == Mul(body_mass, 14000 + Mul(600, training_exp)) + normal(0, 120000, 6)
    IN  [participant_id |-> ParticipantIdStr(pid),
         age |-> age,
         body_mass |-> body_mass,
         height |-> height,
         training_experience |-> training_exp,
         squat_1rm |-> squat_1rm,
         bench_1rm |-> bench_1rm,
         deadlift_1rm |-> deadlift_1rm]

ParticipantSites ==
    <<"age", "body_mass", "height", "training_exp", "squat_noise", "bench_noise",
      "deadlift_noise">>

\* The participant the loop body is working on (the local participant_data).
participant_data == participants_data[Len(participants_data)]

\* Lines 134-152: the locals of the block of exercises[e] at load_percentages[l].
Block(e, l) ==
    LET exercise == exercises[e]
        exercise_1rm == OneRepMax(participant_data, exercise)
        load_pct == load_percentages[l]
    IN  [exercise |-> exercise,
         exercise_1rm |-> exercise_1rm,
         load_pct |-> load_pct,
         absolute_load |-> AbsoluteLoad(exercise_1rm, load_pct),
         base_velocity |-> BaseVelocity(exercise, load_pct),
         individual_factor |-> normal(ONE, 1200, 0)]

\* duration * 0.3, the divisor of line 169
RfdDivisor == Mul(normal(12000, 2000, 1), 3000)

\* Lines 156-199: the measurement of repetition r of the current block.
Measurement(r) ==
    LET mean_velocity == MeanVelocity(blk.base_velocity, blk.individual_factor, r)
        peak_velocity == Mul(mean_velocity, normal(12500, 500, 0))
        duration == normal(12000, 2000, 1)
        rom == normal(6500, 800, 2)
        estimated_force == Mul(blk.absolute_load, 98100)
        power == Mul(estimated_force, mean_velocity)
        rfd == Div(estimated_force, RfdDivisor)
        technique_score == TechniqueScore(blk.load_pct)
        session_date == DaysBefore(now, randint(0, 30, 4))
    IN  [participant_id |-> participant_data.participant_id,
         session_date |-> IsoFormat(session_date),
         exercise |-> blk.exercise,
         load_kg |-> blk.absolute_load,
         load_percent_1rm |-> blk.load_pct,
         rep_number |-> r,
         mean_concentric_velocity |-> mean_velocity,
         peak_velocity |-> peak_velocity,
         duration_concentric |-> duration,
         range_of_motion |-> rom,
         peak_force |-> estimated_force,
         mean_power |-> power,
         rate_of_force_development |-> rfd,
         technique_rating |-> technique_score,
         data_quality |-> uniform(9500, ONE, 5),
         measurement_device |-> "Linear Position Transducer",
         sampling_rate |-> 1000,
         calibration_status |-> "passed"]

MeasurementSites ==
    <<"peak_velocity", "duration", "rom", "technique", "session_days", "data_quality">>

\* pd.DataFrame(list of dicts): one row per dict, in list order.
DataFrame(records) == records

\* The record of a finished call that made sampled sampling calls.
Run(outcome, participants_df, measurements_df, metadata, sampled) ==
    [n |-> n_participants, outcome |-> outcome, participants |-> participants_df,
     measurements |-> measurements_df, metadata |-> metadata,
     sampled |-> sampled, at |-> now]

\* Lines 211-239: dataset_info of the metadata.
Metadata ==
    [created |-> IsoFormat(now),
     participants |-> Len(participants_data),
     measurements |-> Len(vbt_measurements),
     exercises |-> exercises,
     load_range |-> <<load_percentages[1], load_percentages[Len(load_percentages)]>>]

-----------------------------------------------------------------------------
\* Actions.

\* Lines 92-103: a call with n participants starts; at most limit calls are made.
Call(limit) ==
    /\ pc = "idle"
    /\ Len(runs) < limit
    /\ \E n \in NCounts : n_participants' = n
    /\ disk' = [disk EXCEPT !.dir = TRUE]
    /\ rng' = Seeded
    /\ participants_data' = <<>>
    /\ vbt_measurements' = <<>>
    /\ participant_id' = 0
    /\ ex' = 0
    /\ ld' = 0
    /\ rep' = 0
    /\ blk' = NoBlock
    /\ exercises' = <<>>
    /\ load_percentages' = <<>>
    /\ draws' = <<>>
    /\ pc' = "loop"
    /\ UNCHANGED <<seed42, now, runs>>

\* Lines 105-131: the next iteration of the participant loop begins.
NewParticipant ==
    /\ pc = "loop"
    /\ participant_id < n_participants
    /\ participant_id' = participant_id + 1
    /\ participants_data' = Append(participants_data, ParticipantData(participant_id + 1))
    /\ draws' = draws \o [i \in 1 .. 7 |-> Draw(participant_id + 1, 0, 0, 0, ParticipantSites[i])]
    /\ rng' = Advance(7)
    /\ exercises' = <<"squat", "bench", "deadlift">>
    /\ load_percentages' = <<50, 70, 85, 90, 95>>
    /\ ex' = 1
    /\ ld' = 1
    /\ rep' = 0
    /\ pc' = "block"
    /\ UNCHANGED <<n_participants, blk, vbt_measurements, seed42, now, disk, runs>>

\* Lines 133-152: a block begins; its individual_factor is drawn.
BeginBlock ==
    /\ pc = "block"
    /\ blk' = Block(ex, ld)
    /\ draws' = Append(draws, Draw(participant_id, ex, ld, 0, "individual_factor"))
    /\ rng' = Advance(1)
    /\ rep' = 1
    /\ pc' = "rep"
    /\ UNCHANGED <<n_participants, participant_id, ex, ld, exercises, load_percentages,
                   participants_data, vbt_measurements, seed42, now, disk, runs>>

\* Mutant: the load loop stops one level early.
AfterRep_SkipLastLoad ==
    IF rep < 3 THEN [pc |-> "rep", ex |-> ex, ld |-> ld, rep |-> rep + 1]
    ELSE IF ld < Len(load_percentages) - 1
         THEN [pc |-> "block", ex |-> ex, ld |-> ld + 1, rep |-> 0]
    ELSE IF ex < Len(exercises) THEN [pc |-> "block", ex |-> ex + 1, ld |-> 1, rep |-> 0]
    ELSE [pc |-> "loop", ex |-> ex, ld |-> ld, rep |-> rep]

\* Mutant: the load loop is the outer one and the exercise loop the inner one.
AfterRep_LoadOuter ==
    IF rep < 3 THEN [pc |-> "rep", ex |-> ex, ld |-> ld, rep |-> rep + 1]
    ELSE IF ex < Len(exercises) THEN [pc |-> "block", ex |-> ex + 1, ld |-> ld, rep |-> 0]
    ELSE IF ld < Len(load_percentages)
         THEN [pc |-> "block", ex |-> 1, ld |-> ld + 1, rep |-> 0]
    ELSE [pc |-> "loop", ex |-> ex, ld |-> ld, rep |-> rep]

\* Where the loops continue after repetition rep of block (ex, ld).
AfterRep ==
    IF rep < 3 THEN [pc |-> "rep", ex |-> ex, ld |-> ld, rep |-> rep + 1]
    ELSE IF ld < Len(load_percentages) THEN [pc |-> "block", ex |-> ex, ld |-> ld + 1, rep |-> 0]
    ELSE IF ex < Len(exercises) THEN [pc |-> "block", ex |-> ex + 1, ld |-> 1, rep |-> 0]
    ELSE [pc |-> "loop", ex |-> ex, ld |-> ld, rep |-> rep]

\* Lines 154-201: one repetition is measured and appended.
Measure ==
    /\ pc = "rep"
    /\ IF RfdDivisor = 0
       THEN \* ZeroDivisionError at line 169, after three sampling calls
            /\ draws' = draws \o [i \in 1 .. 3 |->
                                     Draw(participant_id, ex, ld, rep, MeasurementSites[i])]
            /\ rng' = Advance(3)
            /\ runs' = Append(runs, Run("ZeroDivisionError", <<>>, <<>>, <<>>, Len(draws) + 3))
            /\ pc' = "idle"
            /\ UNCHANGED <<vbt_measurements, ex, ld, rep>>
       ELSE /\ draws' = draws \o [i \in 1 .. 6 |->
                                     Draw(participant_id, ex, ld, rep, MeasurementSites[i])]
            /\ rng' = Advance(6)
            /\ vbt_measurements' = Append(vbt_measurements, Measurement(rep))
            /\ pc' = AfterRep.pc
            /\ ex' = AfterRep.ex
            /\ ld' = AfterRep.ld
            /\ rep' = AfterRep.rep
            /\ UNCHANGED runs
    /\ UNCHANGED <<n_participants, participant_id, blk, exercises, load_percentages,
                   participants_data, seed42, now, disk>>

\* Lines 204-208: the loop is over; both tables are written.
SaveTables ==
    /\ pc = "loop"
    /\ participant_id >= n_participants
    /\ disk' = [disk EXCEPT !.participants_csv = DataFrame(participants_data),
                            !.measurements_csv = DataFrame(vbt_measurements)]
    /\ pc' = "metadata"
    /\ UNCHANGED <<n_participants, participant_id, ex, ld, rep, blk, exercises,
                   load_percentages, participants_data, vbt_measurements, rng, seed42,
                   draws, now, runs>>

\* Line 218 reads the local exercises, which only the loop body binds.
MetadataRaises ==
    /\ pc = "metadata"
    /\ exercises = <<>>
    /\ runs' = Append(runs, Run("UnboundLocalError", <<>>, <<>>, <<>>, Len(draws)))
    /\ pc' = "idle"
    /\ UNCHANGED <<n_participants, participant_id, ex, ld, rep, blk, exercises,
                   load_percentages, participants_data, vbt_measurements, rng, seed42,
                   draws, now, disk>>

\* Lines 211-250: the metadata is written and the tables are returned.
ReturnDataset ==
    /\ pc = "metadata"
    /\ exercises # <<>>
    /\ disk' = [disk EXCEPT !.metadata_json = Metadata]
    /\ runs' = Append(runs, Run("returned", DataFrame(participants_data),
                                DataFrame(vbt_measurements), Metadata, Len(draws)))
    /\ pc' = "idle"
    /\ UNCHANGED <<n_participants, participant_id, ex, ld, rep, blk, exercises,
                   load_percentages, participants_data, vbt_measurements, rng, seed42,
                   draws, now>>

\* Time passes: between two calls, or between two clock readings of one call.
Tick ==
    /\ now < MaxClock
    /\ now' = now + 1
    /\ UNCHANGED <<pc, n_participants, participant_id, ex, ld, rep, blk, exercises,
                   load_percentages, participants_data, vbt_measurements, rng, seed42,
                   draws, disk, runs>>

-----------------------------------------------------------------------------
\* Specifications.

\* One call of generate_sample_academic_dataset, under every generator state.
\* The clock may advance at any moment of it.
Next ==
    \/ Call(1)
    \/ Tick
    \/ NewParticipant
    \/ BeginBlock
    \/ Measure
    \/ SaveTables
    \/ MetadataRaises
    \/ ReturnDataset

Spec == Init /\ [][Next]_vars

\* Two calls one after the other, under a cycle and under a three-level stream;
\* the clock may advance during the first call, between the calls or during the
\* second.
RerunKeys == {Key(4, 1, 0), Key(0, 3, 2)}

InitRerun == InitWith(RerunKeys)

NextRerun ==
    \/ Call(2)
    \/ Tick
    \/ NewParticipant
    \/ BeginBlock
    \/ Measure
    \/ SaveTables
    \/ MetadataRaises
    \/ ReturnDataset

SpecRerun == InitRerun /\ [][NextRerun]_vars

-----------------------------------------------------------------------------
\* Vocabulary of the properties.

Exercises == <<"squat", "bench", "deadlift">>

LoadLevels == <<50, 70, 85, 90, 95>>

Reps == 1 .. 3

IndexIn(seq, x) == CHOOSE i \in DOMAIN seq : seq[i] = x

\* The loop index a participant id was formatted from.
PidIndex(s) == CHOOSE k \in 1 .. MaxParticipants : ParticipantIdStr(k) = s

\* The traversal position of a measurement row.
RowKey(m) ==
    <<PidIndex(m.participant_id), IndexIn(Exercises, m.exercise),
      IndexIn(LoadLevels, m.load_percent_1rm), m.rep_number>>

\* Lexicographic order on 4-tuples.
LexLess(x, y) ==
    \E i \in 1 .. 4 : x[i] < y[i] /\ \A j \in 1 .. i - 1 : x[j] = y[j]

Returned(k) == runs[k].outcome = "returned"

Raised(k) == runs[k].outcome # "returned"

\* The sampling call that produced the technique score of the last appended row.
LastTechniqueDraw == normal(BaseTechnique(blk.load_pct), 8000, -3)

LastRow == vbt_measurements[Len(vbt_measurements)]

-----------------------------------------------------------------------------
\* C1: two calls with the same participant count return identical participants
\* and measurements tables, every field included, whenever they are executed.
C1_SameTablesOnRerun ==
    \A i \in DOMAIN runs : \A j \in DOMAIN runs :
        (Returned(i) /\ Returned(j) /\ runs[i].n = runs[j].n)
            => /\ runs[i].participants = runs[j].participants
               /\ runs[i].measurements = runs[j].measurements

-----------------------------------------------------------------------------
\* C2: a call with n >= 1 participants returns exactly one measurement for each
\* (participant, exercise, load%, rep) and nothing else: n x 45 rows.
C2_OneRowPerCombination ==
    \A k \in DOMAIN runs :
        runs[k].n >= 1 =>
            LET rows == runs[k].measurements
                combos == {<<ParticipantIdStr(p), Exercises[e], LoadLevels[l], r>> :
                              p \in 1 .. runs[k].n, e \in 1 .. 3, l \in 1 .. 5, r \in Reps}
                keyOf(m) == <<m.participant_id, m.exercise, m.load_percent_1rm, m.rep_number>>
            IN  /\ Returned(k)
                /\ Len(rows) = runs[k].n * 45
                /\ \A i \in DOMAIN rows : keyOf(rows[i]) \in combos
                /\ \A c \in combos : Cardinality({i \in DOMAIN rows : keyOf(rows[i]) = c}) = 1

C2_Witness ==
    \E k \in DOMAIN runs :
        /\ runs[k].n = MaxParticipants
        /\ Returned(k)
        /\ Len(runs[k].measurements) = 45 * MaxParticipants

-----------------------------------------------------------------------------
\* C3: during generation and in the returned and written tables, every
\* measurement's participant_id is the id of exactly one participants row.
ReferentialIntegrity(participants, measurements) ==
    \A i \in DOMAIN measurements :
        Cardinality({j \in DOMAIN participants :
                        participants[j].participant_id = measurements[i].participant_id}) = 1

C3_ReferentialIntegrity ==
    /\ ReferentialIntegrity(participants_data, vbt_measurements)
    /\ \A k \in DOMAIN runs : ReferentialIntegrity(runs[k].participants, runs[k].measurements)
    /\ disk.measurements_csv # NoFile
          => ReferentialIntegrity(disk.participants_csv, disk.measurements_csv)

C3_Witness ==
    /\ pc = "rep"
    /\ Len(participants_data) = 2
    /\ Len(vbt_measurements) > 45
    /\ LastRow.participant_id = ParticipantIdStr(2)
    /\ vbt_measurements[1].participant_id = ParticipantIdStr(1)

-----------------------------------------------------------------------------
\* C4: every measurement has mean_concentric_velocity >= 0.1 and
\* 1 <= technique_rating <= 10, whatever the draws were.
C4_VelocityFloorAndRatingRange ==
    \A i \in DOMAIN vbt_measurements :
        /\ vbt_measurements[i].mean_concentric_velocity >= 1000
        /\ vbt_measurements[i].technique_rating >= ONE
        /\ vbt_measurements[i].technique_rating <= 10 * ONE

\* A row of a block with a negative individual_factor whose technique draw was
\* above the scale: the velocity is floored and the rating clipped.
C4_Witness ==
    /\ pc = "rep"
    /\ rep >= 2
    /\ blk.individual_factor < 0
    /\ LastTechniqueDraw > 10 * ONE
    /\ LastRow.mean_concentric_velocity = 1000
    /\ LastRow.technique_rating = 10 * ONE

-----------------------------------------------------------------------------
\* C5: within a (participant, exercise, load%) block the velocity does not
\* increase with the repetition number.
SameBlock(a, b) ==
    /\ a.load_percent_1rm = b.load_percent_1rm
    /\ a.exercise = b.exercise
    /\ a.participant_id = b.participant_id

C5_VelocityNonIncreasing ==
    \A i \in DOMAIN vbt_measurements : \A j \in DOMAIN vbt_measurements :
        (vbt_measurements[i].rep_number < vbt_measurements[j].rep_number
            /\ SameBlock(vbt_measurements[i], vbt_measurements[j]))
        => vbt_measurements[i].mean_concentric_velocity
              >= vbt_measurements[j].mean_concentric_velocity

\* A finished block that starts above the floor and ends on it.
C5_Witness ==
    /\ Len(vbt_measurements) >= 3
    /\ LastRow.rep_number = 3
    /\ LastRow.mean_concentric_velocity = 1000
    /\ LET first == vbt_measurements[Len(vbt_measurements) - 2]
       IN  /\ SameBlock(first, LastRow)
           /\ first.rep_number = 1
           /\ first.mean_concentric_velocity > 1000

-----------------------------------------------------------------------------
\* C6: a call with a non-positive participant count ends in an error, creates
\* no record, consumes no draw and produces no output table.
C6_NonPositiveCountRejected ==
    \A k \in DOMAIN runs :
        runs[k].n <= 0 =>
            /\ Raised(k)
            /\ participants_data = <<>>
            /\ vbt_measurements = <<>>
            /\ runs[k].sampled = 0
            /\ disk.participants_csv = NoFile
            /\ disk.measurements_csv = NoFile

-----------------------------------------------------------------------------
\* C7: every measurement's load_kg is the one-rep-max of its own participant
\* for its own exercise, times load_percent_1rm / 100.
C7_LoadFromOwnOneRepMax ==
    \A i \in DOMAIN vbt_measurements :
        LET m == vbt_measurements[i]
            p == participants_data[CHOOSE j \in DOMAIN participants_data :
                                       participants_data[j].participant_id = m.participant_id]
            orm == IF m.exercise = "squat" THEN p.squat_1rm
                   ELSE IF m.exercise = "bench" THEN p.bench_1rm
                   ELSE p.deadlift_1rm
        IN  m.load_kg = Mul(orm, m.load_percent_1rm * 100)

\* A bench row of the second participant, whose bench one-rep-max differs from
\* their squat one-rep-max and from the first participant's bench one-rep-max.
C7_Witness ==
    /\ Len(participants_data) = 2
    /\ Len(vbt_measurements) > 45
    /\ LastRow.exercise = "bench"
    /\ LastRow.participant_id = ParticipantIdStr(2)
    /\ participants_data[2].bench_1rm # participants_data[2].squat_1rm
    /\ participants_data[2].bench_1rm # participants_data[1].bench_1rm
    /\ participants_data[2].bench_1rm > 0

-----------------------------------------------------------------------------
\* C9: every participant's squat, bench and deadlift one-rep-max is strictly
\* positive, and so are every measurement's load_kg and peak_force.
C9_PositiveOneRepMax ==
    /\ \A i \in DOMAIN participants_data :
          /\ participants_data[i].squat_1rm > 0
          /\ participants_data[i].bench_1rm > 0
          /\ participants_data[i].deadlift_1rm > 0
    /\ \A i \in DOMAIN vbt_measurements :
          /\ vbt_measurements[i].load_kg > 0
          /\ vbt_measurements[i].peak_force > 0

-----------------------------------------------------------------------------
\* C10: rows are appended and the stream is consumed in the order participant,
\* exercise, load level, repetition; a participant's own draws come before the
\* draws of their measurements and after every draw of the participant before.
C10_TraversalOrder ==
    /\ \A i \in 1 .. Len(vbt_measurements) - 1 :
          LexLess(RowKey(vbt_measurements[i]), RowKey(vbt_measurements[i + 1]))
    /\ pc # "idle" => rng = [key |-> seed42, pos |-> Len(draws)]
    /\ \A i \in 1 .. Len(draws) - 1 :
          LET d == draws[i]
              f == draws[i + 1]
          IN  /\ d.p <= f.p
              /\ (d.p = f.p /\ d.e > 0) => f.e > 0
              /\ ~LexLess(<<f.p, f.e, f.l, f.r>>, <<d.p, d.e, d.l, d.r>>)

C10_Witness ==
    /\ pc = "idle"
    /\ Len(runs) = 1
    /\ runs[1].n = 2
    /\ Len(vbt_measurements) = 90
    /\ Len(draws) = 2 * 292

-----------------------------------------------------------------------------
\* C11: a call with n participants returns the first n participants rows and,
\* in every field computed from the model (all but session_date), the first
\* 45 x n measurements rows of a call with n + 1 participants.
ModelFields(m) == [m EXCEPT !.session_date = <<>>]

C11_PrefixStability ==
    \A i \in DOMAIN runs : \A j \in DOMAIN runs :
        (Returned(i) /\ Returned(j) /\ runs[i].n >= 1 /\ runs[j].n = runs[i].n + 1)
            => /\ Len(runs[i].participants) = runs[i].n
               /\ Len(runs[j].participants) = runs[i].n + 1
               /\ \A k \in 1 .. runs[i].n :
                     runs[i].participants[k] = runs[j].participants[k]
               /\ Len(runs[i].measurements) = 45 * runs[i].n
               /\ Len(runs[j].measurements) = 45 * (runs[i].n + 1)
               /\ \A k \in 1 .. 45 * runs[i].n :
                     ModelFields(runs[i].measurements[k]) = ModelFields(runs[j].measurements[k])

\* A call with n participants followed, at a later clock reading, by a call with
\* n + 1 participants whose added participant differs from the first one.
C11_Witness ==
    /\ Len(runs) = 2
    /\ Returned(1)
    /\ Returned(2)
    /\ runs[1].n >= 1
    /\ runs[2].n = runs[1].n + 1
    /\ runs[2].at > runs[1].at
    /\ runs[2].participants[runs[2].n].body_mass # runs[2].participants[1].body_mass
    /\ runs[1].measurements[1].session_date # runs[2].measurements[1].session_date

====
